---------------------------- MODULE Spec2Model ----------------------------
(***************************************************************************)
(* alx_travel_app/listings: the booking resource (views.py, BookingViewSet),*)
(* the payment verification endpoint (views.py, verify_payment_view) and    *)
(* the booking-confirmation job (tasks.py, send_booking_confirmation_email).*)
(*                                                                          *)
(* Python dicts (request.GET, the gateway's JSON, a JsonResponse body) are  *)
(* sets of <<key, value>> pairs; formatted strings are tuples of their      *)
(* pieces; the Payment table is the sequence of its rows in pk order.       *)
(*                                                                          *)
(* views.py as written does not compile: the def line of verify_payment_view*)
(* is indented into BookingViewSet and its body is not; it also imports     *)
(* send_payment_confirmation_email, which tasks.py does not define. The     *)
(* model is of the module-level view the body spells out; the payment job   *)
(* is only ever enqueued, never run.                                        *)
(***************************************************************************)
EXTENDS Integers, Sequences, FiniteSets, TLC

\* Bounds of the model.
MaxPayments == 2     \* rows of the Payment table
MaxCalls == 2        \* verification requests
MaxBookings == 2     \* booking creations
MaxClock == 1        \* values datetime.now() takes

VARIABLES
    payments,      \* the Payment table: rows in pk order
    gatewayCalls,  \* the calls of verify_payment, in order: who called, with what
    saveLog,       \* the requests whose payment.save() landed, in order
    reqs,          \* the verification requests: locals of verify_payment_view
    bookings,      \* the Booking table
    nextId,        \* the next Booking id the database assigns
    queue,         \* the messages .delay() handed to the task queue, in order
    tasks,         \* the worker's state for each message of queue
    outbox,        \* the mails send_mail delivered
    logFile,       \* /tmp/booking_email_log.txt: the chunks written, in order
    clock          \* the last value datetime.now() returned

vars == <<payments, gatewayCalls, saveLog, reqs, bookings, nextId, queue,
          tasks, outbox, logFile, clock>>

paymentVars == <<payments, gatewayCalls, saveLog, reqs>>
bookingVars == <<bookings, nextId>>
workerVars == <<outbox, logFile, clock>>

---------------------------------------------------------------------------
\* Values.

None == "None"

References == {"TX123", "TX456"}
Amounts == {100, 250}
Emails == {"pay@example.com"}
Customers == {[name |-> "alice", email |-> "alice@example.com"],
              [name |-> "bob", email |-> "bob@example.com"]}

\* Payment rows before any verification: booking_reference is a string, never
\* None, and is not unique.
PaymentRows == [booking_reference : References, status : {"Pending"}, amount : Amounts]

\* request.GET: each parameter present at most once, or absent.
QueryDicts ==
    {ref \cup em : ref \in {{}} \cup {{<<"tx_ref", t>>} : t \in References},
                   em \in {{}} \cup {{<<"email", e>>} : e \in Emails}}

\* What verify_payment returns: no "data", "data" without "status", or a status.
GatewayStatuses == {"success", "failed"}
GatewayResponses ==
    {{}, {<<"data", {}>>}} \cup {{<<"data", {<<"status", s>>}>>} : s \in GatewayStatuses}

\* dict.get(key, default)
HasKey(d, key) == \E p \in d : p[1] = key
DictGet(d, key, default) ==
    IF HasKey(d, key) THEN (CHOOSE p \in d : p[1] = key)[2] ELSE default

---------------------------------------------------------------------------
\* verify_payment_view, one statement group at a time, on the state it touches.

NoPayment == [pk |-> 0, booking_reference |-> None, status |-> None, amount |-> 0]
NewRequest == [pc |-> "idle", GET |-> {}, reference |-> None, email |-> None,
               payment |-> NoPayment, response_data |-> {}, status |-> None,
               resp |-> [code |-> 0, body |-> {}], after |-> None]
NewTask == [pc |-> "queued", ts |-> 0, result |-> <<>>]

World(r) == [payments |-> payments, gatewayCalls |-> gatewayCalls, saveLog |-> saveLog,
             queue |-> queue, tasks |-> tasks, id |-> r, req |-> reqs[r]]

\* Mutant: a reference left in as the default of the lookup key.
tx_ref_param_defaulted(GET) == DictGet(GET, "tx_ref", "TX123")

\* request.GET.get("tx_ref")
tx_ref_param(GET) == DictGet(GET, "tx_ref", None)

\* request.GET.get("email", "user@example.com")
email_param(GET) == DictGet(GET, "email", "user@example.com")

\* Mutant: the filter dropped, Payment.objects.first().
first_payment_unfiltered(rows, reference) == IF Len(rows) = 0 THEN 0 ELSE 1

\* Payment.objects.filter(booking_reference=reference).first(): the pk of the
\* first matching row in pk order, 0 when there is none.
first_payment(rows, reference) ==
    LET hits == {i \in 1..Len(rows) : rows[i].booking_reference = reference}
    IN  IF hits = {} THEN 0 ELSE CHOOSE i \in hits : \A k \in hits : i <= k

\* Mutant: a missing status read as a success.
extract_status_optimistic(response_data) ==
    DictGet(DictGet(response_data, "data", {}), "status", "success")

\* response_data.get("data", {}).get("status", "failed")
extract_status(response_data) ==
    DictGet(DictGet(response_data, "data", {}), "status", "failed")

\* "Completed" if status == "success" else "Failed"
payment_status(status) == IF status = "success" THEN "Completed" ELSE "Failed"

\* Mutant: a row that is "Completed" is never written again.
save_row_keep_completed(row, obj) ==
    IF row.status = "Completed" THEN row
    ELSE [booking_reference |-> obj.booking_reference, status |-> obj.status,
          amount |-> obj.amount]

\* payment.save(): the row with this pk takes every field of the object.
save_row(row, obj) ==
    [booking_reference |-> obj.booking_reference, status |-> obj.status,
     amount |-> obj.amount]

\* send_payment_confirmation_email.delay(email, reference, amount, status)
payment_message(email, reference, payment) ==
    [task |-> "send_payment_confirmation_email",
     args |-> <<email, reference, payment.amount, payment.status>>]

\* Mutant: a payment that was verified before is refused.
lookup_step_once(w, GET) ==
    LET reference == tx_ref_param(GET)
        email == email_param(GET)
        pk == first_payment(w.payments, reference)
        seen == [w.req EXCEPT !.GET = GET, !.reference = reference, !.email = email]
    IN  IF pk = 0
        THEN [w EXCEPT !.req = [seen EXCEPT
                  !.pc = "done",
                  !.resp = [code |-> 404, body |-> {<<"error", "Payment not found">>}]]]
        ELSE IF w.payments[pk].status # "Pending"
        THEN [w EXCEPT !.req = [seen EXCEPT
                  !.pc = "done",
                  !.resp = [code |-> 400, body |-> {<<"error", "Payment already verified">>}]]]
        ELSE [w EXCEPT !.req = [seen EXCEPT
                  !.pc = "gateway",
                  !.payment = [pk |-> pk,
                               booking_reference |-> w.payments[pk].booking_reference,
                               status |-> w.payments[pk].status,
                               amount |-> w.payments[pk].amount]]]

\* lines 21-26
lookup_step(w, GET) ==
    LET reference == tx_ref_param(GET)
        email == email_param(GET)
        pk == first_payment(w.payments, reference)
        seen == [w.req EXCEPT !.GET = GET, !.reference = reference, !.email = email]
    IN  IF pk = 0
        THEN [w EXCEPT !.req = [seen EXCEPT
                  !.pc = "done",
                  !.resp = [code |-> 404, body |-> {<<"error", "Payment not found">>}]]]
        ELSE [w EXCEPT !.req = [seen EXCEPT
                  !.pc = "gateway",
                  !.payment = [pk |-> pk,
                               booking_reference |-> w.payments[pk].booking_reference,
                               status |-> w.payments[pk].status,
                               amount |-> w.payments[pk].amount]]]

\* lines 28-29
gateway_step(w, response_data) ==
    [w EXCEPT !.gatewayCalls = Append(@, [request |-> w.id, reference |-> w.req.reference]),
              !.req = [@ EXCEPT !.pc = "save",
                                !.response_data = response_data,
                                !.status = extract_status(response_data)]]

\* Mutant: an optimistic check, the UPDATE refused when the row's status is no
\* longer the one this request read.
save_step_checked(w) ==
    LET obj == [w.req.payment EXCEPT !.status = payment_status(w.req.status)]
    IN  IF w.payments[obj.pk].status # w.req.payment.status
        THEN [w EXCEPT !.req = [@ EXCEPT
                  !.pc = "done",
                  !.resp = [code |-> 409, body |-> {<<"error", "Payment changed">>}]]]
        ELSE [w EXCEPT !.payments = [@ EXCEPT ![obj.pk] = save_row(@, obj)],
                       !.saveLog = Append(@, w.id),
                       !.req = [@ EXCEPT !.pc = "respond", !.payment = obj]]

\* lines 31-32
save_step(w) ==
    LET obj == [w.req.payment EXCEPT !.status = payment_status(w.req.status)]
    IN  [w EXCEPT !.payments = [@ EXCEPT ![obj.pk] = save_row(@, obj)],
                  !.saveLog = Append(@, w.id),
                  !.req = [@ EXCEPT !.pc = "respond", !.payment = obj]]

\* Mutant: the job is given the gateway's status, not the row's.
respond_step_raw(w) ==
    [w EXCEPT !.queue = Append(@, [task |-> "send_payment_confirmation_email",
                                   args |-> <<w.req.email, w.req.reference,
                                              w.req.payment.amount, w.req.status>>]),
              !.tasks = Append(@, NewTask),
              !.req = [@ EXCEPT
                  !.pc = "done",
                  !.resp = [code |-> 200, body |-> {<<"status", w.req.payment.status>>}],
                  !.after = w.payments[w.req.payment.pk].status]]

\* lines 34-35
respond_step(w) ==
    [w EXCEPT !.queue = Append(@, payment_message(w.req.email, w.req.reference,
                                                  w.req.payment)),
              !.tasks = Append(@, NewTask),
              !.req = [@ EXCEPT
                  !.pc = "done",
                  !.resp = [code |-> 200, body |-> {<<"status", w.req.payment.status>>}],
                  !.after = w.payments[w.req.payment.pk].status]]

Install(w) ==
    /\ payments' = w.payments
    /\ gatewayCalls' = w.gatewayCalls
    /\ saveLog' = w.saveLog
    /\ queue' = w.queue
    /\ tasks' = w.tasks
    /\ reqs' = [reqs EXCEPT ![w.id] = w.req]

\* The whole handler, run without another request in between.
verify_payment_view(r, GET, response_data) ==
    /\ reqs[r].pc = "idle"
    /\ \A k \in 1..(r - 1) : reqs[k].pc = "done"
    /\ LET w1 == lookup_step(World(r), GET)
       IN  Install(IF w1.req.pc = "done" THEN w1
                   ELSE respond_step(save_step(gateway_step(w1, response_data))))
    /\ UNCHANGED <<bookingVars, workerVars>>

\* The same handler under concurrent web workers: the ORM query, the gateway's
\* HTTP call, the UPDATE and the enqueue are separate steps of each request.
Lookup(r, GET) ==
    /\ reqs[r].pc = "idle"
    /\ Install(lookup_step(World(r), GET))
    /\ UNCHANGED <<bookingVars, workerVars>>

CallGateway(r, response_data) ==
    /\ reqs[r].pc = "gateway"
    /\ Install(gateway_step(World(r), response_data))
    /\ UNCHANGED <<bookingVars, workerVars>>

Save(r) ==
    /\ reqs[r].pc = "save"
    /\ Install(save_step(World(r)))
    /\ UNCHANGED <<bookingVars, workerVars>>

Respond(r) ==
    /\ reqs[r].pc = "respond"
    /\ Install(respond_step(World(r)))
    /\ UNCHANGED <<bookingVars, workerVars>>

---------------------------------------------------------------------------
\* BookingViewSet.

\* Mutant: the job enqueued for the booking before it has an id.
booking_message_unsaved(booking) ==
    [task |-> "send_booking_confirmation_email",
     args |-> <<booking.customer.email, 0>>]

\* send_booking_confirmation_email.delay(booking.customer.email, booking.id)
booking_message(booking) ==
    [task |-> "send_booking_confirmation_email",
     args |-> <<booking.customer.email, booking.id>>]

\* perform_create: serializer.save() inserts the row under a fresh id, then the
\* job is enqueued for the saved booking.
perform_create(customer) ==
    /\ nextId <= MaxBookings
    /\ LET booking == [id |-> nextId, customer |-> customer]
       IN  /\ bookings' = Append(bookings, booking)
           /\ nextId' = nextId + 1
           /\ queue' = Append(queue, booking_message(booking))
           /\ tasks' = Append(tasks, NewTask)
    /\ UNCHANGED <<paymentVars, outbox, logFile, clock>>

\* ModelViewSet's destroy: the row is deleted; ids are not reused.
destroy(i) ==
    /\ i \in 1..Len(bookings)
    /\ bookings' = [k \in 1..(Len(bookings) - 1) |->
                        IF k < i THEN bookings[k] ELSE bookings[k + 1]]
    /\ UNCHANGED <<paymentVars, nextId, queue, tasks, workerVars>>

---------------------------------------------------------------------------
\* send_booking_confirmation_email(to_email, booking_id), run by a worker.

IsBookingTask(j) ==
    /\ j \in 1..Len(queue)
    /\ queue[j].task = "send_booking_confirmation_email"

booking_mail(to_email, booking_id) ==
    [subject |-> <<"Booking Confirmation #", booking_id>>,
     message |-> <<"Your booking with ID ", booking_id, " has been confirmed!">>,
     from_email |-> "noreply@alxtravelapp.com",
     recipient_list |-> <<to_email>>]

\* f"{datetime.now()} - Email sent to {to_email} for booking {booking_id}\n"
log_message(now, to_email, booking_id) ==
    <<now, " - Email sent to ", to_email, " for booking ", booking_id, "\n">>

\* Mutant: the file opened with 'w'.
append_to_truncated(file, chunk) == <<chunk>>

\* open(path, 'a') ... write(log_message): one write at the end of the file.
append_to(file, chunk) == Append(file, chunk)

\* Mutant: send_mail(..., fail_silently=True), the job going on after a failed send.
SendMailSilently(j, ok) ==
    /\ IsBookingTask(j)
    /\ tasks[j].pc = "queued"
    /\ outbox' = IF ok THEN Append(outbox, booking_mail(queue[j].args[1], queue[j].args[2]))
                 ELSE outbox
    /\ tasks' = [tasks EXCEPT ![j].pc = "sent"]
    /\ UNCHANGED <<paymentVars, bookingVars, queue, logFile, clock>>

\* line 13: send_mail returns, or raises and ends the job.
SendMail(j, ok) ==
    /\ IsBookingTask(j)
    /\ tasks[j].pc = "queued"
    /\ IF ok
       THEN /\ outbox' = Append(outbox, booking_mail(queue[j].args[1], queue[j].args[2]))
            /\ tasks' = [tasks EXCEPT ![j].pc = "sent"]
       ELSE /\ outbox' = outbox
            /\ tasks' = [tasks EXCEPT ![j].pc = "send_failed"]
    /\ UNCHANGED <<paymentVars, bookingVars, queue, logFile, clock>>

\* line 15: the timestamp is read before the file is opened.
FormatLog(j, now) ==
    /\ IsBookingTask(j)
    /\ tasks[j].pc = "sent"
    /\ now \in clock..MaxClock
    /\ clock' = now
    /\ tasks' = [tasks EXCEPT ![j].pc = "formatted", ![j].ts = now]
    /\ UNCHANGED <<paymentVars, bookingVars, queue, outbox, logFile>>

\* lines 16-19: the append and the return, or an I/O error that ends the job.
WriteLog(j, ok) ==
    /\ IsBookingTask(j)
    /\ tasks[j].pc = "formatted"
    /\ IF ok
       THEN /\ logFile' = append_to(logFile,
                    log_message(tasks[j].ts, queue[j].args[1], queue[j].args[2]))
            /\ tasks' = [tasks EXCEPT ![j].pc = "done",
                                      ![j].result = <<"Email sent to ", queue[j].args[1]>>]
       ELSE /\ logFile' = logFile
            /\ tasks' = [tasks EXCEPT ![j].pc = "write_failed"]
    /\ UNCHANGED <<paymentVars, bookingVars, queue, outbox, clock>>

---------------------------------------------------------------------------
\* Specifications.

Init ==
    /\ payments \in UNION {[1..n -> PaymentRows] : n \in 0..MaxPayments}
    /\ gatewayCalls = <<>>
    /\ saveLog = <<>>
    /\ reqs = [r \in 1..MaxCalls |-> NewRequest]
    /\ bookings = <<>>
    /\ nextId = 1
    /\ queue = <<>>
    /\ tasks = <<>>
    /\ outbox = <<>>
    /\ logFile = <<>>
    /\ clock = 0

Verify == \E r \in 1..MaxCalls, GET \in QueryDicts, response_data \in GatewayResponses :
              verify_payment_view(r, GET, response_data)
Create == \E customer \in Customers : perform_create(customer)
Destroy == \E i \in 1..MaxBookings : destroy(i)
Send == \E j \in 1..(MaxCalls + MaxBookings), ok \in BOOLEAN : SendMail(j, ok)
Format == \E j \in 1..(MaxCalls + MaxBookings), now \in 0..MaxClock : FormatLog(j, now)
Write == \E j \in 1..(MaxCalls + MaxBookings), ok \in BOOLEAN : WriteLog(j, ok)

\* The payment endpoint, one request at a time.
NextPayment == Verify

SpecPayment == Init /\ [][NextPayment]_vars

\* The booking resource and the workers that run its jobs.
NextBooking == Create \/ Destroy \/ Send \/ Format \/ Write

\* The booking resource and its job never read the Payment table.
InitBooking == Init /\ payments = <<>>

SpecBooking == InitBooking /\ [][NextBooking]_vars

\* The whole application; the two endpoints share nothing but the queue they
\* append to.
Next == NextPayment \/ NextBooking

Spec == Init /\ [][Next]_vars

\* The payment endpoint under concurrent web workers, for requests that name a
\* reference and leave the email to its default, and a gateway that reports a
\* status.
RaceQueries == {{<<"tx_ref", t>>} : t \in References}
RaceLookup == \E r \in 1..MaxCalls, GET \in RaceQueries : Lookup(r, GET)
RaceResponses == {{<<"data", {<<"status", s>>}>>} : s \in GatewayStatuses}
RaceGateway == \E r \in 1..MaxCalls, response_data \in RaceResponses :
                   CallGateway(r, response_data)
RaceSave == \E r \in 1..MaxCalls : Save(r)
RaceRespond == \E r \in 1..MaxCalls : Respond(r)

NextRace == RaceLookup \/ RaceGateway \/ RaceSave \/ RaceRespond

SpecRace == Init /\ [][NextRace]_vars

---------------------------------------------------------------------------
\* Properties of the payment endpoint.

Requests == 1..MaxCalls
Done(r) == reqs[r].pc = "done"
Found(r) == reqs[r].payment.pk # 0
Returned(r) == reqs[r].pc = "idle" /\ reqs'[r].pc = "done"
NotFoundResponse == [code |-> 404, body |-> {<<"error", "Payment not found">>}]
StatusResponse(s) == [code |-> 200, body |-> {<<"status", s>>}]
PaymentJobs == {j \in 1..Len(queue) : queue[j].task = "send_payment_confirmation_email"}

\* The gateway's answer carries data.status == "success".
SaysSuccess(response_data) ==
    \E p \in response_data : p[1] = "data" /\ <<"status", "success">> \in p[2]

\* C1: for a request whose tx_ref matches a Payment row, the row's status after
\* the call is "Completed" exactly when the gateway's data.status is "success",
\* and "Failed" in every other case; the JSON response carries that status.
C1_StatusFollowsGateway ==
    \A r \in Requests : Done(r) /\ Found(r) =>
        /\ reqs[r].after = "Completed" <=> SaysSuccess(reqs[r].response_data)
        /\ ~SaysSuccess(reqs[r].response_data) => reqs[r].after = "Failed"
        /\ reqs[r].resp = StatusResponse(reqs[r].after)

C1_Witness ==
    \E r, q \in Requests :
        /\ Done(r) /\ Found(r) /\ SaysSuccess(reqs[r].response_data)
        /\ reqs[r].after = "Completed"
        /\ Done(q) /\ Found(q) /\ reqs[q].response_data = {}
        /\ reqs[q].after = "Failed"

\* C2: a request whose reference has no matching Payment row returns the 404
\* body {"error": "Payment not found"}; no Payment row is changed, the gateway
\* is not called and no job is enqueued.
C2_NotFoundHasNoEffect ==
    [][\A r \in Requests :
          (/\ Returned(r)
           /\ \A i \in 1..Len(payments) :
                  payments[i].booking_reference # reqs'[r].reference)
          => /\ reqs'[r].resp = NotFoundResponse
             /\ payments' = payments
             /\ gatewayCalls' = gatewayCalls
             /\ queue' = queue]_vars

C2_Witness ==
    \E r \in Requests :
        /\ Done(r)
        /\ reqs[r].reference \in References
        /\ reqs[r].resp = NotFoundResponse
        /\ Len(payments) > 0
        /\ queue = <<>> /\ gatewayCalls = <<>>

\* C3 as stated: after any verification call exactly one payment-confirmation
\* job has been enqueued, with the payload of the persisted row.
C3_EveryCallEnqueues ==
    [][\A r \in Requests : Returned(r) =>
          \E m \in [task : {"send_payment_confirmation_email"},
                    args : {<<reqs'[r].email, reqs'[r].reference,
                              reqs'[r].payment.amount, reqs'[r].payment.status>>}] :
              queue' = Append(queue, m)]_vars

\* C3, amended: after a verification call whose reference matches a Payment
\* row, exactly one payment-confirmation job has been enqueued, and its payload
\* is the request's email, the reference, and the amount and status of the
\* persisted row.
C3_MatchedCallEnqueuesRow ==
    [][\A r \in Requests : Returned(r) /\ Found(r)' =>
          LET row == payments'[reqs'[r].payment.pk]
              email == IF \E p \in reqs'[r].GET : p[1] = "email"
                       THEN (CHOOSE p \in reqs'[r].GET : p[1] = "email")[2]
                       ELSE "user@example.com"
          IN  queue' = Append(queue,
                  [task |-> "send_payment_confirmation_email",
                   args |-> <<email, row.booking_reference, row.amount, row.status>>])]_vars

C3_Witness ==
    \E r \in Requests, j \in PaymentJobs :
        /\ Done(r) /\ Found(r)
        /\ reqs[r].GET = {<<"tx_ref", "TX123">>}
        /\ Cardinality(PaymentJobs) = 1
        /\ queue[j].args[1] = "user@example.com"
        /\ queue[j].args[2] = "TX123"
        /\ queue[j].args[3] = payments[reqs[r].payment.pk].amount
        /\ queue[j].args[4] = "Completed"
        /\ payments[reqs[r].payment.pk].status = "Completed"

\* C5: two verifications in immediate succession for the same reference, with
\* the same gateway result, leave the row's status after the second call as it
\* was after the first, and the second call returns the same status response,
\* without an error.
C5_Idempotent ==
    \A r \in Requests : \A q \in Requests :
        (/\ q = r + 1
         /\ Done(r) /\ Done(q) /\ Found(r)
         /\ reqs[q].reference = reqs[r].reference
         /\ reqs[q].response_data = reqs[r].response_data)
        => /\ reqs[q].resp = reqs[r].resp
           /\ reqs[q].resp.code = 200
           /\ reqs[q].after = reqs[r].after

C5_Witness ==
    \E r, q \in Requests :
        /\ q = r + 1
        /\ Done(r) /\ Done(q) /\ Found(r) /\ Found(q)
        /\ reqs[q].reference = reqs[r].reference
        /\ reqs[q].response_data = reqs[r].response_data
        /\ reqs[r].payment.pk = reqs[q].payment.pk
        /\ reqs[q].after = "Completed"

\* C7 as stated: a request that omits tx_ref ends in a missing-key error,
\* neither the 404 response nor a status response.
C7_MissingRefRaises ==
    \A r \in Requests :
        Done(r) /\ ~(\E p \in reqs[r].GET : p[1] = "tx_ref")
        => reqs[r].resp.code \notin {404, 200}

\* C7, amended: a request that omits tx_ref is not validated and raises
\* nothing: the reference is None, which matches no Payment row (no row has a
\* null booking_reference), and the request ends like any other whose
\* reference is unknown, with the 404 body {"error": "Payment not found"} and
\* without a call to the gateway.
C7_MissingRefNotFound ==
    \A r \in Requests :
        Done(r) /\ ~(\E p \in reqs[r].GET : p[1] = "tx_ref")
        => /\ reqs[r].reference = None
           /\ reqs[r].resp = NotFoundResponse
           /\ \A k \in 1..Len(gatewayCalls) : gatewayCalls[k].request # r

C7_Witness ==
    \E r \in Requests :
        /\ Done(r)
        /\ reqs[r].GET = {<<"email", "pay@example.com">>}
        /\ reqs[r].resp = NotFoundResponse
        /\ Len(payments) > 0

\* C10: verification overwrites the status whatever it was: the status after a
\* call is decided by that call's gateway result alone, so a "Completed" row
\* becomes "Failed" on a later result without data.status == "success"; the
\* amount and the booking_reference of every row stay as they were, and no row
\* but the one looked up changes.
C10_StatusOverwritten ==
    [][/\ Len(payments') = Len(payments)
       /\ \A i \in 1..Len(payments) :
              /\ payments'[i].amount = payments[i].amount
              /\ payments'[i].booking_reference = payments[i].booking_reference
       /\ \A r \in Requests : Returned(r) /\ Found(r)' =>
              \A i \in 1..Len(payments) :
                  payments'[i].status =
                      IF i # reqs'[r].payment.pk THEN payments[i].status
                      ELSE IF SaysSuccess(reqs'[r].response_data) THEN "Completed"
                      ELSE "Failed"]_vars

C10_Witness ==
    \E r, q \in Requests :
        /\ q = r + 1 /\ Done(r) /\ Done(q)
        /\ reqs[r].payment.pk = reqs[q].payment.pk /\ Found(r)
        /\ reqs[r].after = "Completed"
        /\ reqs[q].payment.status = "Failed"
---------------------------------------------------------------------------
\* Properties of the payment endpoint under concurrent requests.

GatewayPos(r) == CHOOSE k \in 1..Len(gatewayCalls) : gatewayCalls[k].request = r
SavePos(r) == CHOOSE k \in 1..Len(saveLog) : saveLog[k] = r
OwnStatus(r) == IF SaysSuccess(reqs[r].response_data) THEN "Completed" ELSE "Failed"

\* The request whose save of row pk landed last, 0 when none has.
LastSaver(pk) ==
    LET ks == {k \in 1..Len(saveLog) : reqs[saveLog[k]].payment.pk = pk}
    IN  IF ks = {} THEN 0 ELSE saveLog[CHOOSE k \in ks : \A m \in ks : m <= k]

\* C6: nothing stands between reading the row, calling the gateway and saving:
\* every request that reaches the save writes its own status over the row, so
\* the persisted status is that of whichever save landed last, and no request
\* reports an error. The witness is the lost update: the save that lands last
\* belongs to the request whose gateway result is the older one.
C6_LastWriterWins ==
    /\ \A pk \in 1..Len(payments) :
           LastSaver(pk) # 0 => payments[pk].status = OwnStatus(LastSaver(pk))
    /\ \A r \in Requests :
           reqs[r].pc \in {"respond", "done"} /\ Found(r)
           => \E k \in 1..Len(saveLog) : saveLog[k] = r
    /\ \A r \in Requests :
           Done(r) => \/ reqs[r].resp = NotFoundResponse
                      \/ reqs[r].resp = StatusResponse(OwnStatus(r))

C6_LostUpdate ==
    \E a, b \in Requests :
        /\ a # b /\ Done(a) /\ Done(b)
        /\ Found(a) /\ reqs[a].payment.pk = reqs[b].payment.pk
        /\ GatewayPos(a) < GatewayPos(b)
        /\ SavePos(b) < SavePos(a)
        /\ OwnStatus(a) # OwnStatus(b)
        /\ payments[reqs[a].payment.pk].status = OwnStatus(a)
        /\ reqs[a].resp = StatusResponse(OwnStatus(a))
        /\ reqs[b].resp = StatusResponse(OwnStatus(b))
---------------------------------------------------------------------------
\* Properties of the booking resource and of its job.

BookingJobs == {j \in 1..Len(queue) : queue[j].task = "send_booking_confirmation_email"}
Persisted(id) == \E i \in 1..Len(bookings) : bookings[i].id = id
LogLines(to_email, booking_id) ==
    {k \in 1..Len(logFile) : logFile[k][3] = to_email /\ logFile[k][5] = booking_id}
Mails(to_email, booking_id) ==
    {k \in 1..Len(outbox) : /\ outbox[k].recipient_list = <<to_email>>
                            /\ outbox[k].subject[2] = booking_id}
IsPrefix(s, t) == Len(s) <= Len(t) /\ \A k \in 1..Len(s) : s[k] = t[k]

\* C4 as stated: every booking has exactly one job, with its id and its
\* customer's email, and no job is in the queue for a booking that is not
\* persisted.
C4_QueuedJobsArePersisted ==
    /\ \A i \in 1..Len(bookings) :
           Cardinality({j \in BookingJobs :
               queue[j].args = <<bookings[i].customer.email, bookings[i].id>>}) = 1
    /\ \A j \in BookingJobs : tasks[j].pc = "queued" => Persisted(queue[j].args[2])

\* C4, amended: for every booking created exactly one job is enqueued, with
\* the booking's id and its customer's email, and only once the booking has
\* been saved: no job is ever in the queue for a booking that has not been
\* persisted (the booking may be deleted later, through the same resource,
\* while its job is still queued).
C4_OneJobPerSavedBooking ==
    /\ \A id \in 1..(nextId - 1) :
           Cardinality({j \in BookingJobs : queue[j].args[2] = id}) = 1
    /\ \A j \in BookingJobs : queue[j].args[2] \in 1..(nextId - 1)
    /\ \A j \in BookingJobs : \A i \in 1..Len(bookings) :
           queue[j].args[2] = bookings[i].id
           => queue[j].args[1] = bookings[i].customer.email

C4_Witness ==
    \E j, k \in BookingJobs :
        /\ tasks[j].pc = "queued" /\ tasks[k].pc = "queued"
        /\ Persisted(queue[j].args[2])
        /\ queue[j].args[1] = "bob@example.com"
        /\ ~Persisted(queue[k].args[2])

\* C8: the log file is append-only under concurrent jobs: a step adds at most
\* one whole line "<timestamp> - Email sent to <email> for booking <id>" at the
\* end and never changes or removes a line written before; every job that has
\* completed has exactly one line, and the file holds nothing else. Only the
\* order of the lines of concurrent jobs is open.
C8_LogAppendOnly ==
    /\ [][/\ IsPrefix(logFile, logFile')
          /\ Len(logFile') <= Len(logFile) + 1]_vars
    /\ [](/\ \A k \in 1..Len(logFile) :
                 \E t \in 0..MaxClock, c \in Customers, id \in 1..(nextId - 1) :
                     logFile[k] = <<t, " - Email sent to ", c.email,
                                    " for booking ", id, "\n">>
          /\ \A j \in BookingJobs : tasks[j].pc = "done" =>
                 Cardinality({k \in 1..Len(logFile) :
                     logFile[k] = <<tasks[j].ts, " - Email sent to ", queue[j].args[1],
                                    " for booking ", queue[j].args[2], "\n">>}) = 1
          /\ Len(logFile) = Cardinality({j \in BookingJobs : tasks[j].pc = "done"}))

\* Two jobs ran side by side: the job enqueued second wrote first, and the
\* line written first carries the later timestamp.
C8_Witness ==
    /\ Len(logFile) = 2
    /\ logFile[1][5] = 2 /\ logFile[2][5] = 1
    /\ logFile[1][1] > logFile[2][1]
    /\ \A j \in BookingJobs : tasks[j].pc = "done"

\* C9: the log line is written only after send_mail has returned: a job whose
\* send raised has ended without a line and without a return value, and for
\* every (email, booking id) the log holds no more lines than mails were sent.
C9_LogOnlyAfterSend ==
    /\ \A j \in BookingJobs : tasks[j].pc = "send_failed" =>
           /\ LogLines(queue[j].args[1], queue[j].args[2]) = {}
           /\ tasks[j].result = <<>>
    /\ \A c \in Customers : \A id \in 1..MaxBookings :
           Cardinality(LogLines(c.email, id)) <= Cardinality(Mails(c.email, id))
    /\ \A j \in BookingJobs : tasks[j].result # <<>> =>
           /\ tasks[j].result = <<"Email sent to ", queue[j].args[1]>>
           /\ Mails(queue[j].args[1], queue[j].args[2]) # {}

C9_Witness ==
    \E j, k \in BookingJobs :
        /\ tasks[j].pc = "send_failed"
        /\ LogLines(queue[j].args[1], queue[j].args[2]) = {}
        /\ tasks[k].pc = "done"
        /\ Cardinality(LogLines(queue[k].args[1], queue[k].args[2])) = 1
        /\ Cardinality(Mails(queue[k].args[1], queue[k].args[2])) = 1
=============================================================================
